---------------------------- MODULE Spec2Model ----------------------------
(***************************************************************************)
(* Perps Funding Pulse (src/src/index.ts): one aggregated funding request. *)
(*                                                                         *)
(* The entry-point handler validates venue_ids, fetchFundingData starts    *)
(* one adapter call per (venue, market), every adapter call is an async    *)
(* function that suspends at its HTTP calls, and Promise.allSettled joins  *)
(* them before the handler assembles the payload.                          *)
(*                                                                         *)
(* Numbers are JavaScript numbers in fixed point: a number n is the        *)
(* integer n * Scale, or NaN (binary rounding is not modelled).  Strings   *)
(* are sequences of characters (market symbols: sequences of tokens).      *)
(* Instants are epoch milliseconds.                                        *)
(***************************************************************************)
EXTENDS Integers, Sequences, FiniteSets, TLC

VARIABLES
    pc,        \* position of the handler: "idle", "await", "done"
    input,     \* the request's {venue_ids, markets}
    tasks,     \* the promises pushed by fetchFundingData, in push order
    outcome,   \* what the handler returned or threw
    now,       \* the wall clock (Date.now()), epoch milliseconds
    reading,   \* what a lone call of calculateTimeToNextFunding returned: <<>>
               \* before the call, <<seconds>> after it
    VENUE_CONFIG,      \* the venue registry object (a module-level const binding)
    INTERNAL_API_KEY,  \* process.env.INTERNAL_API_KEY: <<>> unset, <<key>> set
    request    \* the HTTP request in progress: its route, key header and body

vars == <<pc, input, tasks, outcome, now, reading, VENUE_CONFIG, INTERNAL_API_KEY, request>>

\* What no request changes: the process environment and the stand-alone
\* calculator reading.
process == <<reading, INTERNAL_API_KEY>>

-----------------------------------------------------------------------------
(* Bounds of the model.                                                    *)

MaxVenueIds == 2    \* longest venue_ids list of a request
MaxMarkets == 2     \* longest markets list of a request
MaxTasks == 2       \* most (venue, market) pairs of a request
MaxVariedTasks == 1 \* most pairs of a request answered with every payload

-----------------------------------------------------------------------------
(* JavaScript values.                                                      *)

Num(v) == [nan |-> FALSE, v |-> v]
NaN == [nan |-> TRUE, v |-> 0]
JsNull == [null |-> TRUE]

\* An optional JSON field: <<>> is undefined (field missing), <<s>> is the
\* string s.
Undefined == <<>>
Str(s) == <<s>>

DigitChars == {"0", "1", "2", "3", "4", "5", "6", "7", "8", "9"}
DigitVal == ("0" :> 0) @@ ("1" :> 1) @@ ("2" :> 2) @@ ("3" :> 3) @@ ("4" :> 4)
            @@ ("5" :> 5) @@ ("6" :> 6) @@ ("7" :> 7) @@ ("8" :> 8) @@ ("9" :> 9)

RECURSIVE DigitsFrom(_, _)
\* The longest run of digits of s that starts at position i.
DigitsFrom(s, i) ==
    IF i <= Len(s) /\ s[i] \in DigitChars
    THEN <<s[i]>> \o DigitsFrom(s, i + 1)
    ELSE <<>>

RECURSIVE DecimalValue(_)
DecimalValue(ds) ==
    IF ds = <<>> THEN 0
    ELSE 10 * DecimalValue(SubSeq(ds, 1, Len(ds) - 1)) + DigitVal[ds[Len(ds)]]

RECURSIVE Pow10(_)
Pow10(k) == IF k = 0 THEN 1 ELSE 10 * Pow10(k - 1)

\* Fixed point: four decimal places.
Scale == Pow10(4)

\* The fraction 0.ds in units of 1/Scale (Scale = 10^4: four places).
FractionValue(ds) ==
    LET kept == SubSeq(ds, 1, IF Len(ds) < 4 THEN Len(ds) ELSE 4)
    IN  DecimalValue(kept) * Pow10(4 - Len(kept))

\* parseFloat(s): sign, digits, optional fraction; the longest prefix that is
\* a number, NaN when there is none.
parseFloat(s) ==
    LET signed == Len(s) > 0 /\ s[1] \in {"-", "+"}
        start == IF signed THEN 2 ELSE 1
        ip == DigitsFrom(s, start)
        dot == start + Len(ip)
        fp == IF dot <= Len(s) /\ s[dot] = "." THEN DigitsFrom(s, dot + 1) ELSE <<>>
        mag == DecimalValue(ip) * Scale + FractionValue(fp)
    IN  IF ip = <<>> /\ fp = <<>> THEN NaN
        ELSE Num(IF signed /\ s[1] = "-" THEN 0 - mag ELSE mag)

\* parseInt(s, 10): sign and digits; NaN when there is no digit.  The result
\* is a whole number and is kept unscaled (epoch milliseconds do not fit the
\* fixed point); DivWhole brings it to fixed point.
parseInt(s) ==
    LET signed == Len(s) > 0 /\ s[1] \in {"-", "+"}
        ip == DigitsFrom(s, IF signed THEN 2 ELSE 1)
        mag == DecimalValue(ip)
    IN  IF ip = <<>> THEN NaN
        ELSE Num(IF signed /\ s[1] = "-" THEN 0 - mag ELSE mag)

\* a / k for an unscaled whole number a and a whole constant k > 0.
DivWhole(a, k) ==
    IF a.nan THEN NaN ELSE Num((a.v \div k) * Scale + ((a.v % k) * Scale) \div k)

\* field || '0': undefined and the empty string are falsy.
OrZero(f) == IF f = Undefined \/ f[1] = <<>> THEN <<"0">> ELSE f[1]

Times(a, b) == IF a.nan \/ b.nan THEN NaN ELSE Num((a.v * b.v) \div Scale)
\* a / b for a constant b > 0 given in fixed point, b a divisor of Scale.
DivBy(a, b) == IF a.nan THEN NaN ELSE Num(a.v * (Scale \div b))
Minus(a, b) == IF a.nan \/ b.nan THEN NaN ELSE Num(a.v - b.v)
\* Math.max and Math.min of a number and a constant: NaN stays NaN.
MathMax(a, c) == IF a.nan THEN NaN ELSE IF a.v < c THEN Num(c) ELSE a
MathMin(a, c) == IF a.nan THEN NaN ELSE IF a.v > c THEN Num(c) ELSE a

-----------------------------------------------------------------------------
(* The venue registry and the funding-time calculator.                     *)

\* The initializer of VENUE_CONFIG, as Object.entries reads it: the IDs in
\* declaration order with their enabled flags.
VenueConfigAtStart ==
    << [id |-> "binance", enabled |-> TRUE],
       [id |-> "bybit", enabled |-> TRUE],
       [id |-> "okx", enabled |-> TRUE],
       [id |-> "hyperliquid", enabled |-> TRUE] >>

RECURSIVE MapIds(_)
MapIds(entries) ==
    IF entries = <<>> THEN <<>> ELSE <<Head(entries).id>> \o MapIds(Tail(entries))

getSupportedVenues == MapIds(SelectSeq(VENUE_CONFIG, LAMBDA e : e.enabled))

\* array.includes(x)
Includes(seq, x) == \E i \in 1..Len(seq) : seq[i] = x

MsPerSecond == 1000
getUTCHours(t) == (t \div (3600 * MsPerSecond)) % 24
getUTCMinutes(t) == (t \div (60 * MsPerSecond)) % 60
getUTCSeconds(t) == (t \div MsPerSecond) % 60

\* A schedule without the 16:00 settlement.
TwoFundingHours == <<0, 8>>

nextFundingHours == <<0, 8, 16>>

\* A search for a scheduled hour greater than or equal to the current one.
NextHourInclusive(currentHour) ==
    LET later == SelectSeq(nextFundingHours, LAMBDA h : h >= currentHour)
    IN  IF later = <<>> THEN 24 ELSE Head(later)

\* nextFundingHours.find(h => h > currentHour) ?? 24
NextHour(currentHour) ==
    LET later == SelectSeq(nextFundingHours, LAMBDA h : h > currentHour)
    IN  IF later = <<>> THEN 24 ELSE Head(later)

\* A calculator that is at 0 on a settlement instant: the seconds to the
\* nearest settlement instant that is not in the past.
TimeToNextOrNow(t) ==
    LET elapsed == (t \div MsPerSecond) % (8 * 3600)
    IN  IF elapsed = 0 THEN 0 ELSE 8 * 3600 - elapsed

\* calculateTimeToNextFunding() read at instant t: whole seconds.
calculateTimeToNextFunding(t) ==
    LET currentHour == getUTCHours(t)
        nextHour == NextHour(currentHour)
        hoursUntil == IF nextHour = 24 THEN 24 - currentHour ELSE nextHour - currentHour
        timeToNext == hoursUntil * 3600 - (getUTCMinutes(t) * 60 + getUTCSeconds(t))
    IN  IF timeToNext < 0 THEN 0 ELSE timeToNext

-----------------------------------------------------------------------------
(* Strings of market symbols: sequences of tokens.                         *)

\* The first position at which pat occurs in s, 0 when it does not.
IndexOf(s, pat) ==
    LET hits == {i \in 1..(Len(s) - Len(pat) + 1) : SubSeq(s, i, i + Len(pat) - 1) = pat}
    IN  IF hits = {} THEN 0 ELSE CHOOSE i \in hits : \A j \in hits : i <= j

\* s.replace(pat, rep): the first occurrence only.
Replace(s, pat, rep) ==
    LET i == IndexOf(s, pat)
    IN  IF i = 0 THEN s
        ELSE SubSeq(s, 1, i - 1) \o rep \o SubSeq(s, i + Len(pat), Len(s))

\* s.split(sep)[0]
SplitFirst(s, sep) ==
    LET i == IndexOf(s, sep)
    IN  IF i = 0 THEN s ELSE SubSeq(s, 1, i - 1)

BinanceSymbol(market) == Replace(Replace(market, <<"/">>, <<>>), <<":", "USDT">>, <<>>)
BybitSymbol(market) == Replace(Replace(market, <<"/">>, <<>>), <<":", "USDT">>, <<>>)
OkxSymbol(market) == Replace(Replace(market, <<"/">>, <<"-">>), <<":", "USDT">>, <<"-", "SWAP">>)
HyperliquidSymbol(market) == SplitFirst(market, <<"/">>)

-----------------------------------------------------------------------------
(* The adapters.  A step of an async function ends in a return, a throw or *)
(* the next await.                                                         *)

Null == JsNull
Return(v) == [t |-> "return", value |-> v]
Throw == [t |-> "throw"]
Await(d) == [t |-> "await", data |-> d]

\* A skew that is fundingRate / 0.1 without the clamp.
SkewUnclamped(fundingRate) ==
    IF fundingRate # Num(0) THEN DivBy(fundingRate, Scale \div 10) ELSE Num(0)

\* fundingRate !== 0 ? Math.min(Math.max(fundingRate / 0.1, -1.0), 1.0) : 0.0
Skew(fundingRate) ==
    IF fundingRate # Num(0)
    THEN MathMin(MathMax(DivBy(fundingRate, Scale \div 10), 0 - Scale), Scale)
    ELSE Num(0)

\* parseFloat(x || '0') * 100
RatePercent(field) == Times(parseFloat(OrZero(field)), Num(100 * Scale))

FundingRecord(venue, market, fundingRate, timeToNext, openInterest, markPrice, indexPrice, t) ==
    [ venue |-> venue,
      market |-> market,
      funding_rate |-> fundingRate,
      time_to_next |-> timeToNext,
      open_interest |-> openInterest,
      skew |-> Skew(fundingRate),
      mark_price |-> markPrice,
      index_price |-> indexPrice,
      timestamp |-> t ]

\* What the code after `await fetch(url)` ... `await response.json()` sees of a
\* response r: the transport error and the unparsable body throw.
Threw(r) == r.kind \in {"neterr", "badjson"}

\* A first step without the `if (!response.ok) return null` line.
BinancePremiumAnyStatus(r) ==
    IF Threw(r) THEN Throw ELSE Await(r.body)

\* fetchBinanceFunding, from the premium-index response to the second fetch.
BinancePremium(r) ==
    IF Threw(r) THEN Throw
    ELSE IF r.kind = "notok" THEN Return(Null)
    ELSE Await(r.body)

\* A second step that gives up on a non-success status of the open-interest
\* call.
BinanceOpenInterestStrict(market, data, r, t) ==
    IF Threw(r) THEN Throw
    ELSE IF r.kind = "notok" THEN Return(Null)
    ELSE LET oiData == r.body
         IN  IF data = JsNull \/ oiData = JsNull THEN Throw
             ELSE LET fundingRate == RatePercent(data.lastFundingRate)
                      markPrice == parseFloat(OrZero(data.markPrice))
                      openInterest == Times(parseFloat(OrZero(oiData.openInterest)), markPrice)
                  IN  Return(FundingRecord("binance", market, fundingRate,
                                           Num(calculateTimeToNextFunding(t) * Scale),
                                           openInterest, markPrice,
                                           parseFloat(OrZero(data.indexPrice)), t))

\* fetchBinanceFunding, from the open-interest response to the return.
BinanceOpenInterest(market, data, r, t) ==
    IF Threw(r) THEN Throw
    ELSE LET oiData == IF r.kind = "ok" THEN r.body ELSE [openInterest |-> Undefined]
         IN  IF data = JsNull \/ oiData = JsNull THEN Throw
             ELSE LET fundingRate == RatePercent(data.lastFundingRate)
                      markPrice == parseFloat(OrZero(data.markPrice))
                      openInterest == Times(parseFloat(OrZero(oiData.openInterest)), markPrice)
                  IN  Return(FundingRecord("binance", market, fundingRate,
                                           Num(calculateTimeToNextFunding(t) * Scale),
                                           openInterest, markPrice,
                                           parseFloat(OrZero(data.indexPrice)), t))

\* A Bybit adapter that reads data.result.list[0] without the check of
\* retCode and of the list.
BybitTickerUnchecked(market, r, t) ==
    IF Threw(r) THEN Throw
    ELSE IF r.kind = "notok" THEN Return(Null)
    ELSE LET data == r.body
         IN  IF data = JsNull \/ data.list = Undefined \/ data.list[1] = <<>> THEN Throw
             ELSE LET ticker == data.list[1][1]
                  IN  IF ticker = JsNull THEN Throw
                      ELSE LET fundingRate == RatePercent(ticker.fundingRate)
                               markPrice == parseFloat(OrZero(ticker.markPrice))
                               openInterest == Times(parseFloat(OrZero(ticker.openInterest)), markPrice)
                           IN  Return(FundingRecord("bybit", market, fundingRate,
                                                    Num(calculateTimeToNextFunding(t) * Scale),
                                                    openInterest, markPrice,
                                                    parseFloat(OrZero(ticker.indexPrice)), t))

\* fetchBybitFunding, from the ticker response to the return.
BybitTicker(market, r, t) ==
    IF Threw(r) THEN Throw
    ELSE IF r.kind = "notok" THEN Return(Null)
    ELSE LET data == r.body
         IN  IF data = JsNull THEN Throw
             ELSE IF data.retCode # 0 \/ data.list = Undefined \/ data.list[1] = <<>>
                  THEN Return(Null)
             ELSE LET ticker == data.list[1][1]
                  IN  IF ticker = JsNull THEN Throw
                      ELSE LET fundingRate == RatePercent(ticker.fundingRate)
                               markPrice == parseFloat(OrZero(ticker.markPrice))
                               openInterest == Times(parseFloat(OrZero(ticker.openInterest)), markPrice)
                           IN  Return(FundingRecord("bybit", market, fundingRate,
                                                    Num(calculateTimeToNextFunding(t) * Scale),
                                                    openInterest, markPrice,
                                                    parseFloat(OrZero(ticker.indexPrice)), t))

\* An OKX adapter that reports prices as the other adapters do when the
\* field is missing: parseFloat('0').
OkxFundingRateZeroPrices(market, r, t) ==
    IF Threw(r) THEN Throw
    ELSE IF r.kind = "notok" THEN Return(Null)
    ELSE LET data == r.body
         IN  IF data = JsNull THEN Throw
             ELSE IF data.code # "0" \/ data.data = Undefined \/ data.data[1] = <<>>
                  THEN Return(Null)
             ELSE LET fundingData == data.data[1][1]
                  IN  IF fundingData = JsNull THEN Throw
                      ELSE LET fundingRate == RatePercent(fundingData.fundingRate)
                               timeToNext == Minus(DivWhole(parseInt(OrZero(fundingData.fundingTime)),
                                                            MsPerSecond),
                                                   DivWhole(Num(t), MsPerSecond))
                           IN  Return(FundingRecord("okx", market, fundingRate, timeToNext,
                                                    Num(0), parseFloat(<<"0">>),
                                                    parseFloat(<<"0">>), t))

\* fetchOkxFunding, from the funding-rate response to the return.
OkxFundingRate(market, r, t) ==
    IF Threw(r) THEN Throw
    ELSE IF r.kind = "notok" THEN Return(Null)
    ELSE LET data == r.body
         IN  IF data = JsNull THEN Throw
             ELSE IF data.code # "0" \/ data.data = Undefined \/ data.data[1] = <<>>
                  THEN Return(Null)
             ELSE LET fundingData == data.data[1][1]
                  IN  IF fundingData = JsNull THEN Throw
                      ELSE LET fundingRate == RatePercent(fundingData.fundingRate)
                               \* parseInt(fundingTime || '0', 10) / 1000 - Date.now() / 1000
                               timeToNext == Minus(DivWhole(parseInt(OrZero(fundingData.fundingTime)),
                                                            MsPerSecond),
                                                   DivWhole(Num(t), MsPerSecond))
                           IN  Return(FundingRecord("okx", market, fundingRate, timeToNext,
                                                    Num(0), JsNull, JsNull, t))

\* A search that settles for the first asset of the listing.
FindIndexOfFirst(universe, symbol) ==
    IF universe = <<>> THEN 0 - 1 ELSE 0

\* universe.findIndex(u => u.name === symbol): 0-based, -1 when absent.
FindIndex(universe, symbol) ==
    LET hits == {i \in 1..Len(universe) : universe[i] = symbol}
    IN  IF hits = {} THEN 0 - 1 ELSE (CHOOSE i \in hits : \A j \in hits : i <= j) - 1

\* fetchHyperliquidFunding, from the metaAndAssetCtxs response to the return.
\* data[0]?.universe is <<>> when missing (assetIndex is then undefined) and
\* data[1] is <<>> when missing.
HyperliquidInfo(market, r, t) ==
    IF Threw(r) THEN Throw
    ELSE IF r.kind = "notok" THEN Return(Null)
    ELSE LET data == r.body
             symbol == HyperliquidSymbol(market)
         IN  IF data = JsNull THEN Throw
             ELSE IF data.universe # Undefined /\ FindIndex(data.universe[1], symbol) = 0 - 1
                  THEN Return(Null)
             ELSE IF data.ctxs = Undefined THEN Return(Null)
             ELSE IF data.universe = Undefined THEN Throw
             ELSE LET assetIndex == FindIndex(data.universe[1], symbol)
                      ctxs == data.ctxs[1]
                  IN  IF assetIndex + 1 > Len(ctxs) \/ ctxs[assetIndex + 1] = JsNull THEN Throw
                      ELSE LET assetCtx == ctxs[assetIndex + 1]
                               fundingRate == RatePercent(assetCtx.funding)
                           IN  Return(FundingRecord("hyperliquid", market, fundingRate,
                                                    Num(calculateTimeToNextFunding(t) * Scale),
                                                    parseFloat(OrZero(assetCtx.openInterest)),
                                                    parseFloat(OrZero(assetCtx.markPx)),
                                                    parseFloat(OrZero(assetCtx.oraclePx)), t))

\* A catch block that logs and rethrows.
CatchRethrows(step) == step

\* The catch block of every adapter: log and return null.
Catch(step) == IF step.t = "throw" THEN Return(Null) ELSE step

-----------------------------------------------------------------------------
(* The aggregator.                                                         *)

\* An adapter call up to its first await: the symbol is translated and the
\* first HTTP call is in flight.
NewTask(venue, market, symbol) ==
    [ venue |-> venue, market |-> market, symbol |-> symbol,
      pc |-> "fetch1", status |-> "pending", value |-> Null,
      data |-> JsNull, log |-> <<>> ]

fetchBinanceFunding(market) == NewTask("binance", market, BinanceSymbol(market))
fetchBybitFunding(market) == NewTask("bybit", market, BybitSymbol(market))
fetchOkxFunding(market) == NewTask("okx", market, OkxSymbol(market))
fetchHyperliquidFunding(market) == NewTask("hyperliquid", market, HyperliquidSymbol(market))

\* A loop over the markets that stops after the first one.
PushFirstMarketOnly(venueId, markets) ==
    IF markets = <<>> THEN <<>>
    ELSE IF venueId = "binance" THEN <<fetchBinanceFunding(Head(markets))>>
    ELSE IF venueId = "bybit" THEN <<fetchBybitFunding(Head(markets))>>
    ELSE IF venueId = "okx" THEN <<fetchOkxFunding(Head(markets))>>
    ELSE IF venueId = "hyperliquid" THEN <<fetchHyperliquidFunding(Head(markets))>>
    ELSE <<>>

RECURSIVE PushMarkets(_, _)
\* for (const market of markets) { tasks.push(...) }
PushMarkets(venueId, markets) ==
    IF markets = <<>> THEN <<>>
    ELSE LET market == Head(markets)
             pushed == IF venueId = "binance" THEN <<fetchBinanceFunding(market)>>
                       ELSE IF venueId = "bybit" THEN <<fetchBybitFunding(market)>>
                       ELSE IF venueId = "okx" THEN <<fetchOkxFunding(market)>>
                       ELSE IF venueId = "hyperliquid" THEN <<fetchHyperliquidFunding(market)>>
                       ELSE <<>>
         IN  pushed \o PushMarkets(venueId, Tail(markets))

RECURSIVE DispatchUntilUnsupported(_, _)
\* A loop that an unsupported venue ends (a throw in place of the continue).
DispatchUntilUnsupported(venueIds, markets) ==
    IF venueIds = <<>> THEN <<>>
    ELSE IF ~Includes(getSupportedVenues, Head(venueIds)) THEN <<>>
    ELSE PushMarkets(Head(venueIds), markets)
         \o DispatchUntilUnsupported(Tail(venueIds), markets)

RECURSIVE Dispatch(_, _)
\* for (const venueId of venueIds) { ... }: unsupported venues are skipped.
Dispatch(venueIds, markets) ==
    IF venueIds = <<>> THEN <<>>
    ELSE (IF ~Includes(getSupportedVenues, Head(venueIds)) THEN <<>>
          ELSE PushMarkets(Head(venueIds), markets))
         \o Dispatch(Tail(venueIds), markets)

\* The step an adapter call takes when the response r to its HTTP call in
\* flight arrives at instant t.
AdapterStep(task, r, t) ==
    Catch(IF task.venue = "binance"
          THEN (IF task.pc = "fetch1" THEN BinancePremium(r)
                ELSE BinanceOpenInterest(task.market, task.data, r, t))
          ELSE IF task.venue = "bybit" THEN BybitTicker(task.market, r, t)
          ELSE IF task.venue = "okx" THEN OkxFundingRate(task.market, r, t)
          ELSE HyperliquidInfo(task.market, r, t))

\* The promise of an async function after a step: fulfilled by a return,
\* rejected by a throw that left the function, pending at an await.
Resume(task, r, t) ==
    LET step == AdapterStep(task, r, t)
        logged == [task EXCEPT !.log = Append(@, r)]
    IN  IF step.t = "return"
        THEN [logged EXCEPT !.pc = "settled", !.status = "fulfilled", !.value = step.value]
        ELSE IF step.t = "throw"
        THEN [logged EXCEPT !.pc = "settled", !.status = "rejected"]
        ELSE [logged EXCEPT !.pc = "fetch2", !.data = step.data]

\* A join that resolves with the first task to settle (Promise.race).
FirstSettled(ts) == \E i \in 1..Len(ts) : ts[i].status # "pending"

\* Promise.allSettled(tasks) resolves once no task is pending.
AllSettled(ts) == \A i \in 1..Len(ts) : ts[i].status # "pending"

RECURSIVE MapValues(_)
MapValues(ts) == IF ts = <<>> THEN <<>> ELSE <<Head(ts).value>> \o MapValues(Tail(ts))

\* A join in which one failed call fails the whole list (Promise.all).
CollectAllOrNothing(ts) ==
    IF \E i \in 1..Len(ts) : ts[i].status # "fulfilled" \/ ts[i].value = Null
    THEN <<>>
    ELSE MapValues(ts)

\* A list in completion order: the records by the instant they were built at.
CollectInCompletionOrder(ts) ==
    SortSeq(MapValues(SelectSeq(ts, LAMBDA task : task.status = "fulfilled" /\ task.value # Null)),
            LAMBDA a, b : a.timestamp < b.timestamp)

\* A filter that keeps every fulfilled result, null or not.
CollectFulfilled(ts) ==
    MapValues(SelectSeq(ts, LAMBDA task : task.status = "fulfilled"))

\* results.filter(r => r.status === 'fulfilled' && r.value !== null).map(r => r.value)
Collect(ts) ==
    MapValues(SelectSeq(ts, LAMBDA task : task.status = "fulfilled" /\ task.value # Null))

-----------------------------------------------------------------------------
(* The entry-point handler.                                                *)

\* A validation that looks at the first venue ID only.
InvalidFirstVenueOnly(venueIds) ==
    IF venueIds # <<>> /\ ~Includes(getSupportedVenues, Head(venueIds))
    THEN <<Head(venueIds)>>
    ELSE <<>>

\* input.venue_ids.filter(v => !supportedVenues.includes(v))
InvalidVenues(venueIds) ==
    SelectSeq(venueIds, LAMBDA v : ~Includes(getSupportedVenues, v))

\* What a request ended with.  status is the HTTP status the route sets (0: the
\* route sets none, the response is built by agent-kit); venues and total are
\* the body of /venues.
NoOutcome ==
    [ kind |-> "none", message |-> "", invalid |-> <<>>, available |-> <<>>,
      total_markets |-> 0, markets |-> <<>>, timestamp |-> 0,
      status |-> 0, venues |-> <<>>, total |-> 0 ]

\* `Venues not supported: ${invalid.join(', ')}. Available: ${supported.join(', ')}`
UnsupportedError(invalid) ==
    [NoOutcome EXCEPT !.kind = "error", !.message = "Venues not supported",
                      !.invalid = invalid, !.available = getSupportedVenues]

TotalFailureError ==
    [NoOutcome EXCEPT !.kind = "error",
                      !.message = "Failed to fetch funding data from any venue"]

\* A handler without the empty-list check.
AssembleUnchecked(fundingData, t) ==
    [NoOutcome EXCEPT !.kind = "success", !.total_markets = Len(fundingData),
                      !.markets = fundingData, !.timestamp = t]

\* What the handler does with the aggregator's list at instant t.
Assemble(fundingData, t) ==
    IF Len(fundingData) = 0 THEN TotalFailureError
    ELSE [NoOutcome EXCEPT !.kind = "success", !.total_markets = Len(fundingData),
                           !.markets = fundingData, !.timestamp = t]

-----------------------------------------------------------------------------
(* The internal API route.                                                 *)

\* c.json({ error: message }, status)
ErrorResponse(status, message) ==
    [NoOutcome EXCEPT !.kind = "error", !.status = status, !.message = message]

\* c.json({ error: `Venues not supported: ...` }, 400)
InternalUnsupported(invalid) ==
    [ErrorResponse(400, "Venues not supported") EXCEPT
        !.invalid = invalid, !.available = getSupportedVenues]

\* An internal route without the empty-list check.
InternalAssembleUnchecked(fundingData, t) ==
    [NoOutcome EXCEPT !.kind = "success", !.status = 200,
                      !.total_markets = Len(fundingData),
                      !.markets = fundingData, !.timestamp = t]

\* What the internal route does with the aggregator's list at instant t.
InternalAssemble(fundingData, t) ==
    IF Len(fundingData) = 0
    THEN ErrorResponse(500, "Failed to fetch funding data from any venue")
    ELSE [NoOutcome EXCEPT !.kind = "success", !.status = 200,
                           !.total_markets = Len(fundingData),
                           !.markets = fundingData, !.timestamp = t]

\* await c.req.json() on a body that is not JSON throws a SyntaxError.
JsonThrows(body) == body.kind # "json"

\* FundingInputSchema.parse(input) throws a ZodError when a field is missing.
ParseThrows(body) == body.venue_ids = <<>> \/ body.markets = <<>>

-----------------------------------------------------------------------------
(* The environment: requests, venue responses, the clock.                  *)

VenueIds == {"binance", "bybit", "okx", "hyperliquid", "dydx"}

BTC_USDT == <<"BTC", "/", "USDT", ":", "USDT">>
ETH_USDT == <<"ETH", "/", "USDT", ":", "USDT">>
Markets == {BTC_USDT, ETH_USDT}

\* Unified symbols a caller may name: the markets of the requests and a
\* USDC-settled one.
BTC_USDC == <<"BTC", "/", "USDC", ":", "USDC">>
UnifiedSymbols == Markets \cup {BTC_USDC}

SeqsUpTo(S, n) == UNION {[1..k -> S] : k \in 0..n}

\* 07:59:59.000, 16:00:00.500 and 23:00:00.000 UTC of day 0.
Instants == {28799000, 57600500, 82800000}

NetError == [kind |-> "neterr", body |-> JsNull]
NotOk == [kind |-> "notok", body |-> JsNull]
BadJson == [kind |-> "badjson", body |-> JsNull]
Ok(body) == [kind |-> "ok", body |-> body]

BinancePremiumBodies ==
    { JsNull,
      [lastFundingRate |-> Str(<<"0", ".", "0", "0", "1", "5">>),
       markPrice |-> Str(<<"2">>), indexPrice |-> Str(<<"2", ".", "5">>)],
      [lastFundingRate |-> Str(<<"-", "0", ".", "0", "0", "2">>),
       markPrice |-> Undefined, indexPrice |-> Str(<<"x">>)],
      [lastFundingRate |-> Str(<<"0", ".", "0", "0", "0", "1">>),
       markPrice |-> Str(<<"n", "/", "a">>), indexPrice |-> Str(<<"2">>)] }

BinanceOpenInterestBodies ==
    { JsNull,
      [openInterest |-> Str(<<"5">>)],
      [openInterest |-> Str(<<"-", "1">>)] }

BybitTickers ==
    { JsNull,
      [fundingRate |-> Str(<<"0", ".", "0", "0", "0", "5">>), markPrice |-> Str(<<"2">>),
       openInterest |-> Str(<<"4">>), indexPrice |-> Str(<<"2">>)],
      [fundingRate |-> Str(<<>>), markPrice |-> Str(<<"-", "2">>),
       openInterest |-> Str(<<"4">>), indexPrice |-> Undefined] }

BybitBodies ==
    { JsNull,
      [retCode |-> 10001, list |-> Undefined],
      [retCode |-> 0, list |-> Undefined],
      [retCode |-> 0, list |-> <<(<<>>)>>],
      [retCode |-> 10001,
       list |-> <<(<<[fundingRate |-> Str(<<"0", ".", "0", "0", "0", "5">>),
                      markPrice |-> Str(<<"2">>), openInterest |-> Str(<<"4">>),
                      indexPrice |-> Str(<<"2">>)]>>)>>] }
    \cup {[retCode |-> 0, list |-> <<(<<ticker>>)>>] : ticker \in BybitTickers}

OkxFundingData ==
    { [fundingRate |-> Str(<<"0", ".", "0", "0", "0", "1">>),
       fundingTime |-> Str(<<"5", "7", "6", "0", "0", "0", "0", "0">>)],
      [fundingRate |-> Str(<<"0">>),
       fundingTime |-> Str(<<"2", "8", "8", "0", "0", "0", "0", "0">>)],
      [fundingRate |-> Str(<<"-", "0", ".", "0", "0", "1">>), fundingTime |-> Undefined],
      [fundingRate |-> Str(<<"n", "/", "a">>),
       fundingTime |-> Str(<<"5", "7", "6", "0", "0", "0", "0", "0">>)] }

OkxBodies ==
    { JsNull,
      [code |-> "51001", data |-> <<(<<>>)>>],
      [code |-> "0", data |-> Undefined],
      [code |-> "0", data |-> <<(<<>>)>>] }
    \cup {[code |-> "0", data |-> <<(<<fd>>)>>] : fd \in OkxFundingData}

CtxBTC ==
    [funding |-> Str(<<"0", ".", "0", "0", "0", "1">>), openInterest |-> Str(<<"7">>),
     markPx |-> Str(<<"2">>), oraclePx |-> Str(<<"2">>)]
CtxETH ==
    [funding |-> Str(<<"-", "0", ".", "0", "0", "3">>), openInterest |-> Undefined,
     markPx |-> Str(<<"1">>), oraclePx |-> Str(<<"1">>)]

HyperliquidBodies ==
    { JsNull,
      [universe |-> Undefined, ctxs |-> <<(<<CtxBTC, CtxETH>>)>>],
      [universe |-> <<(<<(<<"BTC">>), <<"ETH">>>>)>>, ctxs |-> Undefined],
      [universe |-> <<(<<(<<"BTC">>), <<"ETH">>>>)>>, ctxs |-> <<(<<CtxBTC, CtxETH>>)>>],
      [universe |-> <<(<<(<<"ETH">>), <<"BTC">>>>)>>, ctxs |-> <<(<<CtxETH>>)>>],
      [universe |-> <<(<<(<<"SOL">>)>>)>>, ctxs |-> <<(<<CtxBTC>>)>>] }

\* The well-formed payloads every request is answered from.
BasicBodies(venue, call) ==
    IF venue = "binance"
    THEN (IF call = "fetch1"
          THEN {[lastFundingRate |-> Str(<<"0", ".", "0", "0", "1", "5">>),
                 markPrice |-> Str(<<"2">>), indexPrice |-> Str(<<"2", ".", "5">>)]}
          ELSE {[openInterest |-> Str(<<"5">>)]})
    ELSE IF venue = "bybit"
    THEN {[retCode |-> 0, list |-> <<(<<ticker>>)>>] : ticker \in
            {[fundingRate |-> Str(<<"0", ".", "0", "0", "0", "5">>), markPrice |-> Str(<<"2">>),
              openInterest |-> Str(<<"4">>), indexPrice |-> Str(<<"2">>)]}}
    ELSE IF venue = "okx"
    THEN {[code |-> "0", data |-> <<(<<fd>>)>>] : fd \in
            {[fundingRate |-> Str(<<"0", ".", "0", "0", "0", "1">>),
              fundingTime |-> Str(<<"5", "7", "6", "0", "0", "0", "0", "0">>)]}}
    ELSE {[universe |-> <<(<<(<<"BTC">>), <<"ETH">>>>)>>, ctxs |-> <<(<<CtxBTC, CtxETH>>)>>]}

\* Every payload of the model.
AllBodies(venue, call) ==
    IF venue = "binance"
    THEN (IF call = "fetch1" THEN BinancePremiumBodies ELSE BinanceOpenInterestBodies)
    ELSE IF venue = "bybit" THEN BybitBodies
    ELSE IF venue = "okx" THEN OkxBodies
    ELSE HyperliquidBodies

\* What a venue may answer to the HTTP call a task has in flight, in a request
\* of n adapter calls: any failure, and any payload of the model; a request of
\* more than MaxVariedTasks calls is answered from the basic payloads.
Responses(task, n) ==
    {NetError, NotOk, BadJson}
    \cup {Ok(b) : b \in IF n <= MaxVariedTasks THEN AllBodies(task.venue, task.pc)
                        ELSE BasicBodies(task.venue, task.pc)}

InFlight(task) == task.pc \in {"fetch1", "fetch2"}

-----------------------------------------------------------------------------
(* The state machine.                                                      *)

\* The values of the INTERNAL_API_KEY environment variable and of the
\* X-Internal-API-Key header: <<>> is absent.
EnvKeys == {<<>>, <<"k1">>}
HeaderKeys == {<<>>, <<"k1">>, <<"k2">>}

\* A JSON body with its venue_ids and markets fields (<<>>: field missing),
\* and a body that is not JSON.
JsonBody(venueIds, markets) == [kind |-> "json", venue_ids |-> venueIds, markets |-> markets]
TextBody == [kind |-> "text", venue_ids |-> <<>>, markets |-> <<>>]

NoRequest == [route |-> "none", apiKey |-> <<>>, body |-> JsNull]

\* The bodies the internal route is sent: every input of the bounds, bodies
\* that lack a field, and a body that is not JSON.
InternalBodies ==
    {JsonBody(<<p[1]>>, <<p[2]>>) :
        p \in {q \in SeqsUpTo(VenueIds, MaxVenueIds) \X SeqsUpTo(Markets, MaxMarkets) :
                  Len(q[1]) * Len(q[2]) <= MaxTasks}}
    \cup {JsonBody(<<venueIds>>, <<>>) : venueIds \in SeqsUpTo(VenueIds, 1)}
    \cup {JsonBody(<<>>, <<markets>>) : markets \in SeqsUpTo(Markets, 1)}
    \cup {JsonBody(<<>>, <<>>), TextBody}

Init ==
    /\ pc = "idle"
    /\ input = [venue_ids |-> <<>>, markets |-> <<>>]
    /\ tasks = <<>>
    /\ outcome = NoOutcome
    /\ now \in Instants
    /\ reading = <<>>
    /\ VENUE_CONFIG = VenueConfigAtStart
    /\ INTERNAL_API_KEY \in EnvKeys
    /\ request = NoRequest

\* A handler that hands its input to fetchFundingData without validating it.
InvokeUnvalidated(venueIds, markets) ==
    /\ pc = "idle"
    /\ request' = [route |-> "x402", apiKey |-> <<>>,
                   body |-> JsonBody(<<venueIds>>, <<markets>>)]
    /\ input' = [venue_ids |-> venueIds, markets |-> markets]
    /\ tasks' = Dispatch(venueIds, markets)
    /\ outcome' = NoOutcome
    /\ pc' = "await"
    /\ UNCHANGED <<now, process, VENUE_CONFIG>>

\* The handler up to its first await: validation, then fetchFundingData up to
\* Promise.allSettled.
Invoke(venueIds, markets) ==
    /\ pc = "idle"
    /\ request' = [route |-> "x402", apiKey |-> <<>>,
                   body |-> JsonBody(<<venueIds>>, <<markets>>)]
    /\ input' = [venue_ids |-> venueIds, markets |-> markets]
    /\ IF Len(InvalidVenues(venueIds)) > 0
       THEN /\ outcome' = UnsupportedError(InvalidVenues(venueIds))
            /\ tasks' = <<>>
            /\ pc' = "done"
       ELSE /\ tasks' = Dispatch(venueIds, markets)
            /\ outcome' = NoOutcome
            /\ pc' = "await"
    /\ UNCHANGED <<now, process, VENUE_CONFIG>>

\* Adapters that keep `market` in a variable of the module, which the call
\* pushed last has overwritten.
RespondSharingMarket(i, r) ==
    /\ pc = "await"
    /\ InFlight(tasks[i])
    /\ tasks' = [tasks EXCEPT
                    ![i] = Resume([tasks[i] EXCEPT !.market = tasks[Len(tasks)].market], r, now)]
    /\ UNCHANGED <<pc, input, outcome, now, process, VENUE_CONFIG, request>>

\* The response to the HTTP call of task i arrives and the adapter runs to
\* its next await or to its end.
Respond(i, r) ==
    /\ pc = "await"
    /\ InFlight(tasks[i])
    /\ tasks' = [tasks EXCEPT ![i] = Resume(tasks[i], r, now)]
    /\ UNCHANGED <<pc, input, outcome, now, process, VENUE_CONFIG, request>>

\* The venue never answers the HTTP call of task i: fetch(url) carries no
\* timeout and no abort signal, so the call stays pending.
Unresponsive(i) ==
    /\ pc = "await"
    /\ InFlight(tasks[i])
    /\ tasks' = [tasks EXCEPT ![i].pc = "hung"]
    /\ UNCHANGED <<pc, input, outcome, now, process, VENUE_CONFIG, request>>

\* An internal route that reads and validates the body before the key check.
InternalRequestParsingFirst(apiKey, body) ==
    /\ pc = "idle"
    /\ request' = [route |-> "internal", apiKey |-> apiKey, body |-> body]
    /\ IF JsonThrows(body)
       THEN /\ outcome' = ErrorResponse(500, "SyntaxError")
            /\ pc' = "done"
            /\ UNCHANGED <<input, tasks>>
       ELSE IF ParseThrows(body)
       THEN /\ outcome' = ErrorResponse(500, "ZodError")
            /\ pc' = "done"
            /\ UNCHANGED <<input, tasks>>
       ELSE IF INTERNAL_API_KEY = <<>>
       THEN /\ outcome' = ErrorResponse(500, "Server configuration error")
            /\ pc' = "done"
            /\ UNCHANGED <<input, tasks>>
       ELSE IF apiKey # INTERNAL_API_KEY
       THEN /\ outcome' = ErrorResponse(401, "Unauthorized")
            /\ pc' = "done"
            /\ UNCHANGED <<input, tasks>>
       ELSE LET validatedInput == [venue_ids |-> body.venue_ids[1], markets |-> body.markets[1]]
                invalidVenues == SelectSeq(validatedInput.venue_ids,
                                           LAMBDA v : ~Includes(getSupportedVenues, v))
            IN  /\ input' = validatedInput
                /\ IF Len(invalidVenues) > 0
                   THEN /\ outcome' = InternalUnsupported(invalidVenues)
                        /\ tasks' = <<>>
                        /\ pc' = "done"
                   ELSE /\ tasks' = Dispatch(validatedInput.venue_ids, validatedInput.markets)
                        /\ outcome' = NoOutcome
                        /\ pc' = "await"
    /\ UNCHANGED <<now, process, VENUE_CONFIG>>

\* The internal route up to its first await on the network: the key check,
\* the body, the validation, then fetchFundingData up to Promise.allSettled.
\* Whatever is thrown on the way is caught and answered with status 500.
InternalRequest(apiKey, body) ==
    /\ pc = "idle"
    /\ request' = [route |-> "internal", apiKey |-> apiKey, body |-> body]
    /\ IF INTERNAL_API_KEY = <<>>
       THEN /\ outcome' = ErrorResponse(500, "Server configuration error")
            /\ pc' = "done"
            /\ UNCHANGED <<input, tasks>>
       ELSE IF apiKey # INTERNAL_API_KEY
       THEN /\ outcome' = ErrorResponse(401, "Unauthorized")
            /\ pc' = "done"
            /\ UNCHANGED <<input, tasks>>
       ELSE IF JsonThrows(body)
       THEN /\ outcome' = ErrorResponse(500, "SyntaxError")
            /\ pc' = "done"
            /\ UNCHANGED <<input, tasks>>
       ELSE IF ParseThrows(body)
       THEN /\ outcome' = ErrorResponse(500, "ZodError")
            /\ pc' = "done"
            /\ UNCHANGED <<input, tasks>>
       ELSE LET validatedInput == [venue_ids |-> body.venue_ids[1], markets |-> body.markets[1]]
                invalidVenues == SelectSeq(validatedInput.venue_ids,
                                           LAMBDA v : ~Includes(getSupportedVenues, v))
            IN  /\ input' = validatedInput
                /\ IF Len(invalidVenues) > 0
                   THEN /\ outcome' = InternalUnsupported(invalidVenues)
                        /\ tasks' = <<>>
                        /\ pc' = "done"
                   ELSE /\ tasks' = Dispatch(validatedInput.venue_ids, validatedInput.markets)
                        /\ outcome' = NoOutcome
                        /\ pc' = "await"
    /\ UNCHANGED <<now, process, VENUE_CONFIG>>

\* Promise.allSettled resolves and the internal route runs to its end.
InternalFinish ==
    /\ pc = "await"
    /\ request.route = "internal"
    /\ AllSettled(tasks)
    /\ outcome' = InternalAssemble(Collect(tasks), now)
    /\ pc' = "done"
    /\ UNCHANGED <<input, tasks, now, process, VENUE_CONFIG, request>>

\* A handler that, at its end, disables the venues whose calls gave no record.
FinishDisablingFailed ==
    /\ pc = "await"
    /\ request.route = "x402"
    /\ AllSettled(tasks)
    /\ outcome' = Assemble(Collect(tasks), now)
    /\ pc' = "done"
    /\ VENUE_CONFIG' =
          [k \in DOMAIN VENUE_CONFIG |->
              IF \E i \in 1..Len(tasks) :
                    tasks[i].venue = VENUE_CONFIG[k].id /\ tasks[i].value = Null
              THEN [VENUE_CONFIG[k] EXCEPT !.enabled = FALSE]
              ELSE VENUE_CONFIG[k]]
    /\ UNCHANGED <<input, tasks, now, process, request>>

\* Promise.allSettled resolves and the handler runs to its end.
Finish ==
    /\ pc = "await"
    /\ request.route = "x402"
    /\ AllSettled(tasks)
    /\ outcome' = Assemble(Collect(tasks), now)
    /\ pc' = "done"
    /\ UNCHANGED <<input, tasks, now, process, VENUE_CONFIG, request>>

\* GET /venues: the discovery route answers in one step.
GetVenues ==
    /\ pc = "idle"
    /\ request' = [route |-> "venues", apiKey |-> <<>>, body |-> JsNull]
    /\ LET venues == getSupportedVenues
       IN  outcome' = [NoOutcome EXCEPT !.kind = "venues", !.venues = venues,
                                        !.total = Len(venues)]
    /\ pc' = "done"
    /\ UNCHANGED <<input, tasks, now, process, VENUE_CONFIG>>

\* The server takes the next request.
NextRequest ==
    /\ pc = "done"
    /\ pc' = "idle"
    /\ input' = [venue_ids |-> <<>>, markets |-> <<>>]
    /\ tasks' = <<>>
    /\ outcome' = NoOutcome
    /\ request' = NoRequest
    /\ UNCHANGED <<now, process, VENUE_CONFIG>>

\* Time passes.
Tick ==
    /\ \E t \in Instants : t > now /\ now' = t
    /\ UNCHANGED <<pc, input, tasks, outcome, process, VENUE_CONFIG, request>>

Next ==
    \/ /\ pc = "idle"
       /\ \E venueIds \in SeqsUpTo(VenueIds, MaxVenueIds), markets \in SeqsUpTo(Markets, MaxMarkets) :
             /\ Len(venueIds) * Len(markets) <= MaxTasks
             /\ Invoke(venueIds, markets)
    \/ \E i \in 1..Len(tasks) : \E r \in Responses(tasks[i], Len(tasks)) : Respond(i, r)
    \/ \E i \in 1..Len(tasks) : Unresponsive(i)
    \/ Finish
    \/ /\ pc = "idle"
       /\ \E apiKey \in HeaderKeys, body \in InternalBodies : InternalRequest(apiKey, body)
    \/ InternalFinish
    \/ GetVenues
    \/ NextRequest
    \/ Tick

Spec == Init /\ [][Next]_vars

\* The funding-time calculator on its own: it is called once at an instant of
\* day 0, any whole second of the day.
SecondsPerDay == 24 * 3600

ClockInit ==
    /\ pc = "idle"
    /\ input = [venue_ids |-> <<>>, markets |-> <<>>]
    /\ tasks = <<>>
    /\ outcome = NoOutcome
    /\ now \in {sec * MsPerSecond : sec \in 0..(SecondsPerDay - 1)}
    /\ reading = <<>>
    /\ VENUE_CONFIG = VenueConfigAtStart
    /\ INTERNAL_API_KEY = <<>>
    /\ request = NoRequest

CallCalculator ==
    /\ reading = <<>>
    /\ reading' = <<calculateTimeToNextFunding(now)>>
    /\ UNCHANGED <<pc, input, tasks, outcome, now, VENUE_CONFIG, INTERNAL_API_KEY, request>>

ClockNext == CallCalculator

ClockSpec == ClockInit /\ [][ClockNext]_vars

\* The event loop runs every continuation that is ready, and a step that can
\* be taken is eventually taken.
FairSpec == Spec /\ WF_vars(Next)

-----------------------------------------------------------------------------
(* Properties.                                                             *)

SupportedSet == {"binance", "bybit", "okx", "hyperliquid"}
TotalFailureMessage == "Failed to fetch funding data from any venue"

TaskIds == 1..Len(tasks)
Settled(i) == tasks[i].pc = "settled"
HasRecord(i) == Settled(i) /\ tasks[i].status = "fulfilled" /\ tasks[i].value # Null
RequestedPairs == Len(input.venue_ids) * Len(input.markets)
HasUnsupportedVenue == \E k \in 1..Len(input.venue_ids) : input.venue_ids[k] \notin SupportedSet

\* C1: a request with an unsupported venue ID fails with the error that names
\* every offending ID and lists the supported venues, and at no point of the
\* request is an adapter call (an HTTP call) started.
C1_UnsupportedVenueFailsBeforeAnyFetch ==
    (pc # "idle" /\ HasUnsupportedVenue) =>
        /\ pc = "done"
        /\ outcome.kind = "error"
        /\ outcome.message = "Venues not supported"
        /\ outcome.invalid = SelectSeq(input.venue_ids, LAMBDA v : v \notin SupportedSet)
        /\ outcome.available = <<"binance", "bybit", "okx", "hyperliquid">>
        /\ tasks = <<>>

C1_Witness ==
    /\ pc = "done"
    /\ input.venue_ids = <<"binance", "dydx">>
    /\ input.markets = <<BTC_USDT>>
    /\ outcome.invalid = <<"dydx">>

\* C2: when every dispatched adapter call returned null the handler throws the
\* total-failure error; a success payload never has total_markets = 0 or an
\* empty markets list.
C2_AllFailedIsTotalFailure ==
    /\ (pc = "done" /\ Len(tasks) > 0 /\ \A i \in TaskIds : tasks[i].value = Null) =>
          (outcome.kind = "error" /\ outcome.message = TotalFailureMessage)
    /\ outcome.kind = "success" => (outcome.total_markets > 0 /\ outcome.markets # <<>>)

C2_Witness ==
    /\ pc = "done"
    /\ Len(tasks) = 2
    /\ tasks[1].log[1].kind = "neterr"
    /\ tasks[2].log[1].kind = "notok"
    /\ outcome.message = TotalFailureMessage

\* C3: when at least one adapter call returned a record the request succeeds,
\* whatever the other calls did, and the failed calls are not in the payload.
C3_OneRecordIsSuccess ==
    (pc = "done" /\ \E i \in TaskIds : HasRecord(i)) =>
        /\ outcome.kind = "success"
        /\ \A k \in 1..Len(outcome.markets) : outcome.markets[k] # Null

C3_Witness ==
    /\ pc = "done"
    /\ Len(tasks) = 2
    /\ tasks[1].value = Null
    /\ HasRecord(2)
    /\ outcome.kind = "success"
    /\ outcome.total_markets = 1

\* C4: in a success payload total_markets is the length of markets and the
\* number of adapter calls that returned a record; when every call returned a
\* record it is the number of requested (venue, market) pairs.
C4_TotalMarketsCountsRecords ==
    (pc = "done" /\ outcome.kind = "success") =>
        /\ outcome.total_markets = Len(outcome.markets)
        /\ outcome.total_markets = Cardinality({i \in TaskIds : HasRecord(i)})
        /\ (\A i \in TaskIds : HasRecord(i)) => outcome.total_markets = RequestedPairs

C4_Witness ==
    /\ pc = "done"
    /\ input.venue_ids = <<"binance", "bybit">>
    /\ input.markets = <<BTC_USDT>>
    /\ outcome.kind = "success"
    /\ outcome.total_markets = 2

\* A response that makes the adapter throw: a transport error, a body that is
\* not JSON, or a JSON body that is null where an object is read.
FailedCall(r) == r.kind \in {"neterr", "badjson"} \/ (r.kind = "ok" /\ r.body = JsNull)

\* C5 (as stated): no adapter call is ever rejected, and any failure of any of
\* its HTTP calls (a non-success status of any call included) makes it return
\* null: a record is returned only when every call had a success status.
C5_AnyFailedCallGivesNull ==
    \A i \in TaskIds :
        /\ tasks[i].status # "rejected"
        /\ Settled(i) =>
              ((\E k \in 1..Len(tasks[i].log) : tasks[i].log[k].kind # "ok")
                  => tasks[i].value = Null)

\* C5 (amended): no adapter call is ever rejected; it returns null when any of
\* its HTTP calls ends in a transport error, an unparsable body or a null
\* body, or when its first call has a non-success status; a record is returned
\* only when every call had a success status, except that Binance's second
\* (open-interest) call may have a non-success status.
C5_AdapterNeverRaises ==
    \A i \in TaskIds :
        /\ tasks[i].status # "rejected"
        /\ Settled(i) =>
              /\ ((\E k \in 1..Len(tasks[i].log) : FailedCall(tasks[i].log[k]))
                     \/ tasks[i].log[1].kind = "notok")
                    => tasks[i].value = Null
              /\ tasks[i].value # Null =>
                    \A k \in 1..Len(tasks[i].log) :
                        \/ tasks[i].log[k].kind = "ok"
                        \/ (tasks[i].venue = "binance" /\ k = 2 /\ tasks[i].log[k].kind = "notok")

C5_Witness ==
    \E i \in TaskIds :
        /\ HasRecord(i)
        /\ tasks[i].venue = "binance"
        /\ tasks[i].log[2].kind = "notok"
        /\ tasks[i].value.open_interest = Num(0)

\* C6: once a venue does not answer an adapter's HTTP call, the request still
\* eventually completes.
C6_UnresponsiveVenueStillCompletes ==
    (\E i \in TaskIds : tasks[i].pc = "hung") ~> (pc = "done")

\* C7: the aggregator returns only after every dispatched adapter call has
\* settled, and every call that returned a record has it in the returned list,
\* whatever its siblings did.
C7_ReturnsAfterAllSettled ==
    (pc = "done" /\ ~HasUnsupportedVenue) =>
        /\ \A i \in TaskIds : Settled(i) /\ tasks[i].status # "pending"
        /\ \A i \in TaskIds :
              HasRecord(i) => \E k \in 1..Len(outcome.markets) : outcome.markets[k] = tasks[i].value

C7_Witness ==
    /\ pc = "done"
    /\ Len(tasks) = 2
    /\ tasks[1].log[1].kind = "neterr"
    /\ HasRecord(2)
    /\ outcome.markets = <<tasks[2].value>>

\* C8: a request that asks for zero (venue, market) pairs does not end in the
\* total-failure error.
C8_ZeroPairsIsNotTotalFailure ==
    (pc = "done" /\ RequestedPairs = 0) => outcome.message # TotalFailureMessage

\* C9: time_to_next of every record is a non-negative whole number of seconds.
C9_TimeToNextIsNonNegativeInteger ==
    \A i \in TaskIds :
        HasRecord(i) =>
            LET x == tasks[i].value.time_to_next
            IN  ~x.nan /\ x.v >= 0 /\ x.v % Scale = 0

\* C10: open_interest of every record is a number >= 0.
C10_OpenInterestIsNonNegative ==
    \A i \in TaskIds :
        HasRecord(i) =>
            LET x == tasks[i].value.open_interest
            IN  ~x.nan /\ x.v >= 0

\* The records of the request so far.
Records == {tasks[i].value : i \in {j \in TaskIds : HasRecord(j)}}

\* clamp(r / 0.1, -1, 1) of a rate r in percent, both in units of 1/Scale.
ClampedTenfold(r) ==
    IF 10 * r > Scale THEN Scale ELSE IF 10 * r < 0 - Scale THEN 0 - Scale ELSE 10 * r

Sign(x) == IF x > 0 THEN 1 ELSE IF x < 0 THEN 0 - 1 ELSE 0

\* C11: in every record of every adapter whose funding rate r (in percent) is a
\* number, skew is clamp(r / 0.1, -1, 1): 0 when r is 0, 1 for r >= 0.1, -1 for
\* r <= -0.1, of the sign of r; a skew that is a number is within [-1, 1].
C11_SkewIsClampedTenfoldRate ==
    \A rec \in Records :
        LET r == rec.funding_rate
            skew == rec.skew
        IN  /\ ~r.nan =>
                  /\ ~skew.nan
                  /\ skew.v = ClampedTenfold(r.v)
                  /\ r.v = 0 => skew.v = 0
                  /\ r.v >= Scale \div 10 => skew.v = Scale
                  /\ r.v <= 0 - (Scale \div 10) => skew.v = 0 - Scale
                  /\ Sign(skew.v) = Sign(r.v)
            /\ ~skew.nan => (0 - Scale <= skew.v /\ skew.v <= Scale)

\* A rate of 0.15 percent is clamped to skew 1.
C11_Witness ==
    \E rec \in Records :
        /\ rec.funding_rate = Num((15 * Scale) \div 100)
        /\ rec.skew = Num(Scale)

\* The time of day of the clock, and the instant of a time of day of day 0.
SecondOfDay == (now \div MsPerSecond) % SecondsPerDay
At(h, m, s) == (h * 3600 + m * 60 + s) * MsPerSecond

\* The seconds from the time of day sec to the earliest of 08:00, 16:00 and
\* the next day's 00:00 whose hour is greater than the hour of sec.
SecondsToLaterSettlement(sec) ==
    LET h == sec \div 3600
        later == {b \in {8, 16, 24} : b > h}
        next == CHOOSE b \in later : \A c \in later : b <= c
    IN  next * 3600 - sec

\* C12: at every time of day (h, m, s) calculateTimeToNextFunding returns the
\* seconds to the earliest settlement instant among 00:00, 08:00, 16:00 whose
\* hour is strictly greater than h, wrapping to the next day's 00:00 from
\* 16:00 on: 1 at 07:59:59, 28800 at 08:00:00, 3600 at 23:00:00.
C12_SecondsToStrictlyLaterSettlement ==
    reading # <<>> =>
        /\ reading[1] = SecondsToLaterSettlement(SecondOfDay)
        /\ now = At(7, 59, 59) => reading[1] = 1
        /\ now = At(8, 0, 0) => reading[1] = 28800
        /\ now = At(23, 0, 0) => reading[1] = 3600

C12_Witness == now = At(7, 59, 59) /\ reading = <<1>>

\* A settlement boundary instant: 00:00:00, 08:00:00 or 16:00:00.
AtBoundary == now \in {At(0, 0, 0), At(8, 0, 0), At(16, 0, 0)}

\* C13 (as stated): at exactly a settlement boundary instant
\* calculateTimeToNextFunding returns 0, not a full 8-hour interval.
C13_BoundaryReturnsZero ==
    (reading # <<>> /\ AtBoundary) => reading[1] = 0

\* C13 (amended): at exactly a settlement boundary instant
\* calculateTimeToNextFunding returns the full 8-hour interval, 28800, and at
\* no time of day does it return 0: its result is within 1..28800.
C13_BoundaryReturnsFullInterval ==
    reading # <<>> =>
        /\ AtBoundary => reading[1] = 8 * 3600
        /\ 1 <= reading[1] /\ reading[1] <= 8 * 3600

C13_Witness == now = At(16, 0, 0) /\ reading = <<8 * 3600>>

\* The list fetchFundingData returned to the handler, as the handler's outcome
\* shows it: the markets of a success, the empty list of a total failure.
Returned == IF outcome.kind = "success" THEN outcome.markets ELSE <<>>
Aggregated == pc = "done" /\ ~HasUnsupportedVenue

\* The number of positions of seq that hold v.
Count(seq, v) == Cardinality({k \in 1..Len(seq) : seq[k] = v})

\* C14: the list the aggregator returns holds exactly the non-null values of
\* the dispatched adapter calls: each element is the record of a call that
\* fulfilled with a non-null value, each such call has its record in the list
\* once (a value occurs as often as there are calls that returned it), and the
\* list holds no null and no value of a rejected call.
C14_ReturnedIsTheNonNullValues ==
    Aggregated =>
        /\ \A k \in 1..Len(Returned) :
              /\ Returned[k] # Null
              /\ \E i \in TaskIds :
                    tasks[i].status = "fulfilled" /\ tasks[i].value = Returned[k]
        /\ \A i \in TaskIds :
              HasRecord(i) =>
                  Count(Returned, tasks[i].value)
                      = Cardinality({j \in TaskIds : HasRecord(j) /\ tasks[j].value = tasks[i].value})
        /\ Len(Returned) = Cardinality({i \in TaskIds : HasRecord(i)})

\* Two calls returned the same record and the list holds it twice.
C14_Witness ==
    /\ Aggregated
    /\ Len(tasks) = 2
    /\ HasRecord(1) /\ HasRecord(2)
    /\ tasks[1].value = tasks[2].value
    /\ Returned = <<tasks[1].value, tasks[2].value>>

\* The (venue, market) pairs of venue_ids x markets whose venue is supported,
\* venue by venue and market by market.
SupportedPairs(venueIds, markets) ==
    LET vs == SelectSeq(venueIds, LAMBDA v : v \in SupportedSet)
    IN  [k \in 1..(Len(vs) * Len(markets)) |->
            [venue |-> vs[((k - 1) \div Len(markets)) + 1],
             market |-> markets[((k - 1) % Len(markets)) + 1]]]

\* The symbol each venue's adapter asks its venue for.
VenueSymbol(venue, market) ==
    LET base == market[1]
    IN  IF venue \in {"binance", "bybit"} THEN <<base, "USDT">>
        ELSE IF venue = "okx" THEN <<base, "-", "USDT", "-", "SWAP">>
        ELSE <<base>>

\* The number of HTTP calls an adapter makes at most.
HttpCalls(venue) == IF venue = "binance" THEN 2 ELSE 1

\* C15: for every venue_ids and markets the aggregator starts exactly one
\* adapter call for each (venue, market) pair whose venue is supported, with
\* the adapter of that venue, and none for an unsupported venue, which it
\* skips without raising; during a request no call is added and no HTTP call
\* of an adapter is made again: a failed call is not retried.
C15_OneCallPerSupportedPair ==
    /\ pc = "idle" =>
          \A venueIds \in SeqsUpTo(VenueIds, MaxVenueIds), markets \in SeqsUpTo(Markets, MaxMarkets) :
              LET calls == Dispatch(venueIds, markets)
                  pairs == SupportedPairs(venueIds, markets)
              IN  /\ Len(calls) = Len(pairs)
                  /\ \A k \in 1..Len(calls) :
                        /\ calls[k].venue = pairs[k].venue
                        /\ calls[k].market = pairs[k].market
                        /\ calls[k].symbol = VenueSymbol(pairs[k].venue, pairs[k].market)
                        /\ calls[k].pc = "fetch1"
    /\ (pc \in {"await", "done"} /\ ~HasUnsupportedVenue) =>
          /\ Len(tasks) = Len(SupportedPairs(input.venue_ids, input.markets))
          /\ \A i \in TaskIds :
                /\ tasks[i].venue = SupportedPairs(input.venue_ids, input.markets)[i].venue
                /\ tasks[i].market = SupportedPairs(input.venue_ids, input.markets)[i].market
                /\ Len(tasks[i].log) <= HttpCalls(tasks[i].venue)
                /\ (Settled(i) /\ tasks[i].value = Null) => Len(tasks[i].log) >= 1

\* Two venues for one market: the OKX call failed on its only HTTP call and
\* the request ended with two calls made.
C15_Witness ==
    /\ pc = "done"
    /\ input.venue_ids = <<"okx", "hyperliquid">>
    /\ input.markets = <<ETH_USDT>>
    /\ Len(tasks) = 2
    /\ tasks[1].symbol = <<"ETH", "-", "USDT", "-", "SWAP">>
    /\ tasks[1].log = <<NetError>>
    /\ tasks[1].value = Null
    /\ tasks[2].symbol = <<"ETH">>
    /\ HasRecord(2)

\* C16: no request and no adapter call modifies the venue registry: in every
\* state it is as at process start, getSupportedVenues() is the list binance,
\* bybit, okx, hyperliquid of the IDs whose enabled flag is true, and /venues
\* answers with that list and with total equal to its length.
C16_RegistryIsNeverModified ==
    /\ VENUE_CONFIG = VenueConfigAtStart
    /\ getSupportedVenues = <<"binance", "bybit", "okx", "hyperliquid">>
    /\ \A k \in 1..Len(getSupportedVenues) :
          \E e \in 1..Len(VENUE_CONFIG) :
              VENUE_CONFIG[e].id = getSupportedVenues[k] /\ VENUE_CONFIG[e].enabled
    /\ outcome.kind = "venues" =>
          /\ outcome.venues = <<"binance", "bybit", "okx", "hyperliquid">>
          /\ outcome.total = Len(outcome.venues)

\* /venues answered, at the latest instant of the clock.
C16_Witness ==
    /\ pc = "done"
    /\ request.route = "venues"
    /\ outcome.total = Cardinality(SupportedSet)
    /\ \A t \in Instants : t <= now

\* C17: time_to_next of every Hyperliquid record follows the hourly schedule
\* of Hyperliquid: it is the number of seconds from the record's instant to
\* the next full hour, and so never more than 3600.
C17_HyperliquidTimeToNextIsHourly ==
    \A rec \in Records :
        rec.venue = "hyperliquid" =>
            /\ ~rec.time_to_next.nan
            /\ rec.time_to_next.v <= 3600 * Scale
            /\ rec.time_to_next.v = (3600 - ((rec.timestamp \div MsPerSecond) % 3600)) * Scale

\* The request in progress passed the key check of the internal route.
Authorised ==
    /\ request.route = "internal"
    /\ INTERNAL_API_KEY # <<>>
    /\ request.apiKey = INTERNAL_API_KEY

\* The request in progress reached the shared logic with a validated input.
Validated ==
    \/ request.route = "x402"
    \/ Authorised /\ request.body.kind = "json"
                  /\ request.body.venue_ids # <<>> /\ request.body.markets # <<>>

\* What a client can tell of an outcome: its class, its message and lists, and
\* the payload of a success.
OutcomeClass(o) == <<o.kind, o.message, o.invalid, o.available, o.total_markets, o.markets>>

\* What each entry point answers to the validated input and the venue
\* responses of the request in progress.
X402Outcome ==
    IF Len(InvalidVenues(input.venue_ids)) > 0
    THEN UnsupportedError(InvalidVenues(input.venue_ids))
    ELSE Assemble(Collect(tasks), now)
InternalOutcome ==
    IF Len(InvalidVenues(input.venue_ids)) > 0
    THEN InternalUnsupported(InvalidVenues(input.venue_ids))
    ELSE InternalAssemble(Collect(tasks), now)

\* C18: for the same validated input and the same venue responses the internal
\* API route and the x402 entry point reach the same outcome: the
\* unsupported-venue failure with the same message and lists, the total
\* failure with the same message, or a success with the same total_markets
\* and markets.
C18_InternalRouteAgreesWithEntrypoint ==
    (pc = "done" /\ Validated) =>
        /\ request.route = "internal" => OutcomeClass(outcome) = OutcomeClass(X402Outcome)
        /\ request.route = "x402" => OutcomeClass(outcome) = OutcomeClass(InternalOutcome)
        /\ OutcomeClass(outcome)[1] \in {"error", "success"}

\* The internal route succeeded with one record of two calls.
C18_Witness ==
    /\ pc = "done"
    /\ Authorised
    /\ Len(tasks) = 2
    /\ tasks[1].value = Null
    /\ HasRecord(2)
    /\ outcome.status = 200
    /\ outcome.markets = <<tasks[2].value>>

\* C19: a request body that lacks a required field is rejected as a client
\* validation error, with a 4xx status that is not the status of a total
\* failure, and no adapter call is started.
C19_MissingFieldIsClientError ==
    (pc = "done" /\ Authorised /\ request.body.kind = "json"
        /\ (request.body.venue_ids = <<>> \/ request.body.markets = <<>>)) =>
        /\ outcome.kind = "error"
        /\ outcome.status \in 400..499
        /\ outcome.status # InternalAssemble(<<>>, now).status
        /\ tasks = <<>>

\* The calls that returned a record, and the k-th of them in dispatch order.
RecordCalls == {i \in TaskIds : HasRecord(i)}
KthRecordCall(k) == CHOOSE i \in RecordCalls : Cardinality({j \in RecordCalls : j < i}) = k - 1

PairOf(i) == SupportedPairs(input.venue_ids, input.markets)[i]
SettledCalls == {i \in TaskIds : Settled(i)}

RECURSIVE RunAlone(_, _, _)
\* An adapter call run on its own: it is given the responses of log one after
\* the other, the last of them at instant t.
RunAlone(task, log, t) ==
    IF log = <<>> \/ task.pc = "settled" THEN task
    ELSE RunAlone(Resume(task, Head(log), t), Tail(log), t)

\* The instant call i completed at: that of its record, or any instant when
\* it returned null.
CompletedAt(i) == IF tasks[i].value = Null THEN now ELSE tasks[i].value.timestamp

\* C21 (as stated): the value a call fulfils with is a function of its pair's
\* market and of the responses to its own HTTP calls only: two calls for the
\* same venue and market that got the same responses fulfil with the same
\* value.
C21_ValueDependsOnOwnResponsesOnly ==
    \A i, j \in SettledCalls :
        (PairOf(i) = PairOf(j) /\ tasks[i].log = tasks[j].log) =>
            tasks[i].value = tasks[j].value

\* C21 (amended): concurrent adapter calls share no mutable state: the value
\* a call fulfils with is what the adapter of its pair returns when run on
\* its own with the pair's market, the responses to its own HTTP calls and
\* the instant of its completion, whatever the sibling calls received and
\* however the steps interleaved; two calls that agree on these fulfil with
\* the same value.
C21_ValueDependsOnOwnCallAndClock ==
    /\ \A i \in SettledCalls :
          LET alone == RunAlone(PushMarkets(PairOf(i).venue, <<PairOf(i).market>>)[1],
                                tasks[i].log, CompletedAt(i))
          IN  /\ alone.pc = "settled"
              /\ tasks[i].status = alone.status
              /\ tasks[i].value = alone.value
              /\ tasks[i].value # Null =>
                    /\ tasks[i].value.venue = PairOf(i).venue
                    /\ tasks[i].value.market = PairOf(i).market
    /\ \A i, j \in SettledCalls :
          (PairOf(i) = PairOf(j) /\ tasks[i].log = tasks[j].log
              /\ CompletedAt(i) = CompletedAt(j)) =>
              tasks[i].value = tasks[j].value

\* Two calls for two markets of one venue: the first returned its record
\* after its sibling had failed.
C21_Witness ==
    /\ Len(tasks) = 2
    /\ input.venue_ids = <<"bybit">>
    /\ input.markets = <<BTC_USDT, ETH_USDT>>
    /\ tasks[2].log = <<NetError>>
    /\ tasks[2].value = Null
    /\ HasRecord(1)
    /\ tasks[1].value.market = BTC_USDT

\* C22: the Binance adapter makes its two HTTP calls in sequence for one
\* symbol: the open-interest call is in flight or answered only when the
\* premium-index call was answered with a success status and its body was
\* parsed, and a failed premium-index call ends the fetch with null after one
\* call; the record's funding_rate is lastFundingRate x 100 and its
\* open_interest is the open-interest count times the mark price of the
\* premium-index response.  No other adapter makes a second call.
C22_BinanceCallsInSequence ==
    \A i \in TaskIds :
        LET task == tasks[i]
        IN  /\ task.venue # "binance" => (task.pc # "fetch2" /\ Len(task.log) <= 1)
            /\ task.venue = "binance" =>
                  /\ task.symbol = <<task.market[1], "USDT">>
                  /\ (task.pc = "fetch2" \/ Len(task.log) = 2) =>
                        /\ task.log[1].kind = "ok"
                        /\ task.data = task.log[1].body
                  /\ task.pc = "fetch2" => Len(task.log) = 1
                  /\ (Len(task.log) >= 1 /\ task.log[1].kind # "ok") =>
                        (Settled(i) /\ Len(task.log) = 1 /\ task.value = Null)
                  /\ HasRecord(i) =>
                        LET premium == task.log[1].body
                            count == IF task.log[2].kind = "ok"
                                     THEN parseFloat(OrZero(task.log[2].body.openInterest))
                                     ELSE Num(0)
                        IN  /\ Len(task.log) = 2
                            /\ task.value.funding_rate
                                  = Times(parseFloat(OrZero(premium.lastFundingRate)), Num(100 * Scale))
                            /\ task.value.mark_price = parseFloat(OrZero(premium.markPrice))
                            /\ task.value.open_interest = Times(count, task.value.mark_price)

\* A rate of 0.0015 and 5 contracts at mark price 2: 0.15 percent and 10.
C22_Witness ==
    \E i \in TaskIds :
        /\ tasks[i].venue = "binance"
        /\ HasRecord(i)
        /\ tasks[i].log[2].kind = "ok"
        /\ tasks[i].value.funding_rate = Num((15 * Scale) \div 100)
        /\ tasks[i].value.open_interest = Num(10 * Scale)

\* A Bybit body that fails the check before the list is read: the venue's
\* code is not 0, or result.list is missing or empty.
BybitRefused(body) ==
    body # JsNull /\ (body.retCode # 0 \/ body.list = Undefined \/ body.list[1] = <<>>)

\* C23: the Bybit adapter returns null whenever retCode is not 0 or
\* result.list is missing or empty, by the return of its check and not by an
\* error raised from reading the list; a record is built from the first list
\* element only of a body with retCode 0 and a non-empty list.
C23_BybitChecksBeforeIndexing ==
    \A i \in TaskIds :
        (tasks[i].venue = "bybit" /\ Settled(i) /\ tasks[i].log[1].kind = "ok") =>
            LET body == tasks[i].log[1].body
            IN  /\ BybitRefused(body) =>
                      /\ tasks[i].value = Null
                      /\ BybitTicker(tasks[i].market, tasks[i].log[1], now) = Return(Null)
                /\ tasks[i].value # Null =>
                      /\ body.retCode = 0
                      /\ Len(body.list[1]) >= 1
                      /\ tasks[i].value.mark_price = parseFloat(OrZero(body.list[1][1].markPrice))

\* The venue answered with an error code and a list that has an element.
C23_Witness ==
    \E i \in TaskIds :
        /\ tasks[i].venue = "bybit"
        /\ Settled(i)
        /\ tasks[i].log[1].kind = "ok"
        /\ tasks[i].log[1].body # JsNull
        /\ tasks[i].log[1].body.retCode # 0
        /\ tasks[i].log[1].body.list # Undefined
        /\ tasks[i].value = Null

ListedAt(body, market) ==
    IF body.universe = Undefined THEN {}
    ELSE {k \in 1..Len(body.universe[1]) : body.universe[1][k] = <<market[1]>>}

\* C25: the Hyperliquid adapter returns null whenever the base asset of the
\* market is not in the universe listing, the listing or the context array
\* is missing, or the context array ends before the asset's position; when
\* the asset is listed at position k and the context array has an element
\* there, the record is built from that element.
C25_HyperliquidReadsContextAtListedPosition ==
    \A i \in TaskIds :
        (tasks[i].venue = "hyperliquid" /\ Settled(i) /\ tasks[i].log[1].kind = "ok"
            /\ tasks[i].log[1].body # JsNull) =>
            LET body == tasks[i].log[1].body
                listed == ListedAt(body, tasks[i].market)
                value == tasks[i].value
            IN  /\ (listed = {} \/ body.ctxs = Undefined) => value = Null
                /\ (listed # {} /\ body.ctxs # Undefined) =>
                      LET k == CHOOSE p \in listed : \A q \in listed : p <= q
                          ctxs == body.ctxs[1]
                      IN  IF k > Len(ctxs) THEN value = Null
                          ELSE /\ value # Null
                               /\ value.funding_rate
                                     = Times(parseFloat(OrZero(ctxs[k].funding)), Num(100 * Scale))
                               /\ value.open_interest = parseFloat(OrZero(ctxs[k].openInterest))
                               /\ value.mark_price = parseFloat(OrZero(ctxs[k].markPx))
                               /\ value.index_price = parseFloat(OrZero(ctxs[k].oraclePx))

\* ETH is second in the listing and its record has the second context's
\* funding rate, -0.3 percent, and mark price, 1.
C25_Witness ==
    \E i \in TaskIds :
        /\ tasks[i].venue = "hyperliquid"
        /\ tasks[i].market = ETH_USDT
        /\ HasRecord(i)
        /\ ListedAt(tasks[i].log[1].body, ETH_USDT) = {2}
        /\ tasks[i].value.funding_rate = Num(0 - (3 * Scale) \div 10)
        /\ tasks[i].value.mark_price = Num(Scale)

\* The native instrument ID of the unified symbol BASE/QUOTE:SETTLEMENT at a
\* venue.
NativeId(venue, market) ==
    LET base == market[1]
        quote == market[3]
    IN  IF venue \in {"binance", "bybit"} THEN <<base, quote>>
        ELSE IF venue = "okx" THEN <<base, "-", quote, "-", "SWAP">>
        ELSE <<base>>

\* C26: each adapter translates every unified symbol BASE/QUOTE:SETTLEMENT
\* into the native instrument ID of its venue (Binance and Bybit BASEQUOTE,
\* OKX BASE-QUOTE-SWAP, Hyperliquid BASE), asks its venue for that ID, never
\* raises, and returns a record only under the market it was called with.
C26_SymbolTranslationIsExact ==
    /\ pc = "idle" =>
          \A venue \in SupportedSet, market \in UnifiedSymbols :
              PushMarkets(venue, <<market>>)[1].symbol = NativeId(venue, market)
    /\ \A i \in TaskIds :
          /\ tasks[i].symbol = NativeId(tasks[i].venue, tasks[i].market)
          /\ tasks[i].status # "rejected"
          /\ HasRecord(i) => tasks[i].value.market = tasks[i].market

\* hoursUntil * 3600 - (currentMinute * 60 + currentSecond) at instant t: what
\* Math.max(0, Math.floor(...)) is applied to.
TimeToNextUnfloored(t) ==
    (NextHour(getUTCHours(t)) - getUTCHours(t)) * 3600
        - (getUTCMinutes(t) * 60 + getUTCSeconds(t))

\* C27: at every UTC time of day calculateTimeToNextFunding returns a whole
\* number within 1..28800, and the value Math.max(0, ...) is applied to is
\* positive, so the result is that value and never the floor 0.
C27_ResultWithinOneInterval ==
    reading # <<>> =>
        /\ reading[1] \in 1..(8 * 3600)
        /\ TimeToNextUnfloored(now) >= 1
        /\ reading[1] = TimeToNextUnfloored(now)

\* The last second of the day: one second to 00:00.
C27_Witness == now = At(23, 59, 59) /\ reading = <<1>>

\* The Binance calls that got both answers, the first with a success status
\* and a body that is an object.
BinanceAnsweredTwice ==
    {i \in TaskIds : /\ tasks[i].venue = "binance"
                     /\ Settled(i)
                     /\ Len(tasks[i].log) = 2
                     /\ tasks[i].log[1].kind = "ok"
                     /\ tasks[i].log[1].body # JsNull}

\* The funding rate and the prices of a Binance record are those of the
\* premium-index body.
FromPremium(rec, premium) ==
    /\ rec.funding_rate = Times(parseFloat(OrZero(premium.lastFundingRate)), Num(100 * Scale))
    /\ rec.mark_price = parseFloat(OrZero(premium.markPrice))
    /\ rec.index_price = parseFloat(OrZero(premium.indexPrice))

\* A Binance call returns null exactly when its first call has a non-success
\* status or one of its calls raises.
BinanceNullOnlyOnFailure ==
    \A i \in TaskIds :
        (tasks[i].venue = "binance" /\ Settled(i)) =>
            (tasks[i].value = Null <=>
                \/ tasks[i].log[1].kind = "notok"
                \/ \E k \in 1..Len(tasks[i].log) : FailedCall(tasks[i].log[k]))

C29_KeyCheckComesFirst ==
    (request.route = "internal" /\ ~Authorised) =>
        /\ pc = "done"
        /\ outcome.kind = "error"
        /\ IF INTERNAL_API_KEY = <<>>
           THEN outcome.status = 500 /\ outcome.message = "Server configuration error"
           ELSE outcome.status = 401 /\ outcome.message = "Unauthorized"
        /\ input = [venue_ids |-> <<>>, markets |-> <<>>]
        /\ tasks = <<>>
        /\ outcome.markets = <<>>
        /\ outcome.total_markets = 0

\* A request with a different key and a body that is not JSON: 401.
C29_Witness ==
    /\ request.route = "internal"
    /\ INTERNAL_API_KEY = <<"k1">>
    /\ request.apiKey = <<"k2">>
    /\ request.body = TextBody
    /\ outcome.status = 401

\* fetchFundingData has been called for the request in progress: the request
\* waits on Promise.allSettled or has adapter calls.
ReachedAggregator == pc = "await" \/ tasks # <<>>

\* The venue and the market of the adapter call pushed k-th when no venue is
\* skipped: venues in request order, and under each venue the markets in
\* request order.
VenueOfCall(k) == input.venue_ids[((k - 1) \div Len(input.markets)) + 1]
MarketOfCall(k) == input.markets[((k - 1) % Len(input.markets)) + 1]

\* C30: on either entry point, a request that reaches fetchFundingData has
\* only supported venues in venue_ids, so no venue is skipped: the calls
\* started are one per position of venue_ids and position of markets,
\* len(venue_ids) x len(markets) in all, a repeated entry giving a call each
\* time it occurs.
C30_AggregatorSeesOnlySupportedVenues ==
    ReachedAggregator =>
        /\ request.route \in {"x402", "internal"}
        /\ \A j \in 1..Len(input.venue_ids) :
               Includes(getSupportedVenues, input.venue_ids[j])
        /\ Len(tasks) = Len(input.venue_ids) * Len(input.markets)
        /\ \A k \in 1..Len(tasks) :
               /\ tasks[k].venue = VenueOfCall(k)
               /\ tasks[k].market = MarketOfCall(k)

\* The internal route with the same venue twice: two calls to that venue.
C30_Witness ==
    /\ request.route = "internal"
    /\ input.venue_ids = <<"okx", "okx">>
    /\ Len(input.markets) = 1
    /\ Len(tasks) = 2
    /\ tasks[1].venue = "okx" /\ tasks[2].venue = "okx"

=============================================================================
